---- MODULE Spec2Model ----
(***************************************************************************)
(* Model of the two algorithms of the functional-programming teaching      *)
(* scripts: the curry utilities (curry, curryBind) and the recursive       *)
(* flat-list-to-tree builder (hasParent, assignTo, makeTree).              *)
(*                                                                         *)
(* A behaviour is one run of one of three programs, chosen in Init:        *)
(*   prog = "curry"      a caller wraps fn with curry and calls callables  *)
(*   prog = "curryBind"  the same with curryBind                           *)
(*   prog = "tree"       makeTree(animals)(root), one step per call/return *)
(*   prog = "file"       the curried readFile and the reads it issues      *)
(***************************************************************************)
EXTENDS Integers, Sequences, FiniteSets, TLC

VARIABLES
    prog,      \* which program runs
    pc,        \* position of the running program
    fn,        \* the function handed to curry / curryBind
    args,      \* curry: the closure variable `args` shared by every call
    bound,     \* curryBind: bound[r] = arguments bound into bound function r
    held,      \* the callables the caller holds: [ref, acc]
    last,      \* the outcome of the latest call of a callable
    chain,     \* history of the calls: one unbroken chain of 1-argument calls?
    invoked,   \* how many times fn has been invoked
    ncalls,    \* how many calls of callables have been made
    animals,   \* tree: the input array, a sequence of heap addresses
    root,      \* tree: the parent value given to the outermost makeTree call
    heap,      \* tree: the objects, address -> ordered property list
    input,     \* tree: the input as it was before the call (array and objects)
    stack,     \* tree: the activation records of makeTree, innermost last
    result,    \* tree: the value returned by the outermost call
    stage,     \* file: which function of the curried readFile the caller holds
    closure,   \* file: the path and options captured so far
    supplied,  \* file: the callbacks handed to readPeople, in order
    reads      \* file: the fs.readFile calls issued, in order

curryVars == <<fn, args, bound, held, last, chain, invoked, ncalls>>
treeVars  == <<animals, root, heap, input, stack, result>>
fileVars  == <<stage, closure, supplied, reads>>
vars      == <<prog, pc, fn, args, bound, held, last, chain, invoked, ncalls,
               animals, root, heap, input, stack, result,
               stage, closure, supplied, reads>>

(***************************************************************************)
(* Bounds                                                                  *)
(***************************************************************************)
MaxCalls == 4      \* calls of callables made by the caller in one run
MaxRecs  == 3      \* records of the generated input lists
MaxDepth == 6      \* call-stack frames before the engine gives up
MaxReads == 3      \* callbacks handed to readPeople in one run

\* The argument lists a caller passes in one call: none, one argument, or
\* several; they include the lists of the scripts' examples, (1)(2)(3)(4) and
\* (1, 2, 3) followed by (0), (1), (2).
ArgLists == {<<>>, <<0>>, <<1>>, <<2>>, <<3>>, <<4>>, <<1, 2, 3>>}

(***************************************************************************)
(* The wrapped functions                                                   *)
(***************************************************************************)
\* (a, b, c, d) => a + b + c + d ; (a, b, c, d) => a * b * c * d ;
\* (a, b) => a + b ; (...xs) => sum of xs (a rest-parameter function)
Fns == {"sum4", "prod4", "sum2", "rest"}

\* fn.length: the number of declared parameters; a rest parameter counts 0.
FnLength(f) ==
    CASE f = "sum4"  -> 4
      [] f = "prod4" -> 4
      [] f = "sum2"  -> 2
      [] f = "rest"  -> 0

IsVariadic(f) == f = "rest"

RECURSIVE SumSeq(_)
SumSeq(s) == IF s = <<>> THEN 0 ELSE Head(s) + SumSeq(Tail(s))

\* fn.apply(null, a): the parameters are bound to the leading arguments, the
\* arguments beyond the declared parameters are not visible to a fixed-arity
\* body, a missing argument is undefined and makes the arithmetic NaN (-1).
FnApply(f, a) ==
    IF Len(a) < FnLength(f) THEN -1
    ELSE CASE f = "sum4"  -> a[1] + a[2] + a[3] + a[4]
           [] f = "prod4" -> a[1] * a[2] * a[3] * a[4]
           [] f = "sum2"  -> a[1] + a[2]
           [] f = "rest"  -> SumSeq(a)

(***************************************************************************)
(* curry / curryBind                                                       *)
(***************************************************************************)
\* A callable the caller holds.  ref is the function object: 0 is `curried`
\* itself, r > 0 the bound function created r-th by curried.bind.  acc is
\* history: the arguments supplied along the calls that led to this callable.
Wrapper == [ref |-> 0, acc |-> <<>>]

NoCall == [kind |-> "none", h |-> Wrapper, x |-> <<>>, ret |-> Wrapper,
           value |-> 0, passed |-> <<>>]

\* Received as it would be if the bound functions shared one argument list,
\* the one bound last.
ReceivedShared(r, x) == IF r = 0 THEN x ELSE bound[Len(bound)] \o x

\* The arguments `curried` receives when function object r is called with x:
\* a bound function prepends its bound arguments.
Received(r, x) == IF r = 0 THEN x ELSE bound[r] \o x

\* CurryAccumulate as it would be if the earlier arguments were dropped.
CurryAccumulateForgets(old, a) == a

\* `args = [].concat(args, a)` in curry's curried.
CurryAccumulate(old, a) == old \o a

\* Enough as it would be with > in place of >=.
EnoughStrict(a, f) == Len(a) > FnLength(f)

\* `args.length >= fn.length` in both curried functions.
Enough(a, f) == Len(a) >= FnLength(f)

\* History kept for every call: is the run still one chain of one-argument
\* calls, each made on the callable the previous call returned?
ChainAfter(h, x) ==
    [ok  |-> /\ chain.ok
             /\ Len(x) = 1
             /\ last.kind # "value"
             /\ h = (IF last.kind = "none" THEN Wrapper ELSE last.ret),
     fed |-> chain.fed \o x]

\* Wrap as it would be if it refused a function whose length is 0.
WrapChecked ==
    /\ prog \in {"curry", "curryBind"}
    /\ pc = "start"
    /\ IF FnLength(fn) = 0
       THEN pc' = "IndeterminateArityError" /\ held' = {}
       ELSE pc' = "wrapped" /\ held' = {[ref |-> 0, acc |-> <<>>]}
    /\ UNCHANGED <<prog, fn, args, bound, last, chain, invoked, ncalls>>
    /\ UNCHANGED treeVars
    /\ UNCHANGED fileVars

\* curry(fn) / curryBind(fn): build `curried` and return it.  Neither
\* inspects fn nor throws.
Wrap ==
    /\ prog \in {"curry", "curryBind"}
    /\ pc = "start"
    /\ pc' = "wrapped"
    /\ held' = {Wrapper}
    /\ UNCHANGED <<prog, fn, args, bound, last, chain, invoked, ncalls>>
    /\ UNCHANGED treeVars
    /\ UNCHANGED fileVars

\* A call h(...x) of a callable obtained from curry(fn).
CurryCall(h, x) ==
    LET a == CurryAccumulate(args, Received(h.ref, x)) IN
    /\ args' = a
    /\ bound' = bound
    /\ IF Enough(a, fn)
       THEN /\ last' = [kind |-> "value", h |-> h, x |-> x, ret |-> Wrapper,
                        value |-> FnApply(fn, a), passed |-> a]
            /\ invoked' = invoked + 1
            /\ held' = held
       ELSE LET r == [ref |-> 0, acc |-> h.acc \o x] IN
            /\ last' = [kind |-> "callable", h |-> h, x |-> x, ret |-> r,
                        value |-> 0, passed |-> <<>>]
            /\ invoked' = invoked
            /\ held' = held \cup {r}

\* A call h(...x) of a callable obtained from curryBind(fn).
CurryBindCall(h, x) ==
    LET a == Received(h.ref, x) IN
    /\ args' = args
    /\ IF Enough(a, fn)
       THEN /\ last' = [kind |-> "value", h |-> h, x |-> x, ret |-> Wrapper,
                        value |-> FnApply(fn, a), passed |-> a]
            /\ invoked' = invoked + 1
            /\ held' = held
            /\ bound' = bound
       ELSE LET r == [ref |-> Len(bound) + 1, acc |-> h.acc \o x] IN
            /\ bound' = Append(bound, a)
            /\ last' = [kind |-> "callable", h |-> h, x |-> x, ret |-> r,
                        value |-> 0, passed |-> <<>>]
            /\ invoked' = invoked
            /\ held' = held \cup {r}

Call ==
    /\ prog \in {"curry", "curryBind"}
    /\ pc = "wrapped"
    /\ ncalls < MaxCalls
    /\ \E h \in held, x \in ArgLists :
          /\ IF prog = "curry" THEN CurryCall(h, x) ELSE CurryBindCall(h, x)
          /\ chain' = ChainAfter(h, x)
    /\ ncalls' = ncalls + 1
    /\ UNCHANGED <<prog, pc, fn>>
    /\ UNCHANGED treeVars
    /\ UNCHANGED fileVars

(***************************************************************************)
(* Values and objects of the tree builder                                  *)
(***************************************************************************)
\* A value: null, undefined, a string, or a reference to a heap object.
Null      == [t |-> "null",  s |-> "", a |-> 0]
Undefined == [t |-> "undef", s |-> "", a |-> 0]
Str(x)    == [t |-> "str",   s |-> x,  a |-> 0]
Ref(n)    == [t |-> "ref",   s |-> "", a |-> n]

\* An object is its own properties in the order the engine enumerates them
\* (the order Object.keys and JSON.stringify show): a sequence of [k, v].
Keys(obj) == [j \in 1..Len(obj) |-> obj[j].k]

HasKey(obj, key) == \E j \in 1..Len(obj) : obj[j].k = key

\* obj[key]
Get(obj, key) ==
    IF HasKey(obj, key)
    THEN obj[CHOOSE j \in 1..Len(obj) : obj[j].k = key].v
    ELSE Undefined

\* The number a property key denotes when it is an array index ("0", "1",
\* ...), -1 otherwise.  Own properties whose keys are array indices come
\* first, in ascending numeric order; the others follow in creation order.
KeyIndex(key) ==
    CASE key = "0" -> 0
      [] key = "1" -> 1
      [] key = "2" -> 2
      [] OTHER     -> -1

IsIndexKey(key) == KeyIndex(key) >= 0

\* obj[key] = val : an existing property keeps its place, a new one is
\* created at the place the engine's property order gives it.
ObjSet(obj, key, val) ==
    IF HasKey(obj, key)
    THEN [j \in 1..Len(obj) |-> IF obj[j].k = key THEN [k |-> key, v |-> val] ELSE obj[j]]
    ELSE IF IsIndexKey(key)
         THEN LET before == SelectSeq(obj, LAMBDA e : IsIndexKey(e.k) /\ KeyIndex(e.k) < KeyIndex(key))
                  after  == SelectSeq(obj, LAMBDA e : ~(IsIndexKey(e.k) /\ KeyIndex(e.k) < KeyIndex(key)))
              IN  before \o <<[k |-> key, v |-> val]>> \o after
         ELSE Append(obj, [k |-> key, v |-> val])

\* The object literal { 'id': id, 'parent': parent } of the animals array.
RecordObj(id, parent) == <<[k |-> "id", v |-> id], [k |-> "parent", v |-> parent]>>

(***************************************************************************)
(* hasParent, assignTo, makeTree                                           *)
(***************************************************************************)
\* hasParent as it would be if it skipped a record that is its own parent.
hasParentNotSelf(h, parent, animal) ==
    /\ Get(h[animal], "parent") = parent
    /\ Get(h[animal], "parent") # Get(h[animal], "id")

\* hasParent(parent)(animal): animal.parent === parent
hasParent(h, parent, animal) == Get(h[animal], "parent") = parent

\* Filter as it would be if it yielded the matches last to first.
FilterReversed(h, list, parent) ==
    LET all == SelectSeq(list, LAMBDA animal : hasParent(h, parent, animal))
    IN  [j \in 1..Len(all) |-> all[Len(all) + 1 - j]]

\* Filter as it would be if it stopped at the first match.
FilterFirst(h, list, parent) ==
    LET all == SelectSeq(list, LAMBDA animal : hasParent(h, parent, animal))
    IN  IF all = <<>> THEN <<>> ELSE <<Head(all)>>

\* animals.filter(hasParent(parent)): the matching elements, in array order.
Filter(h, list, parent) == SelectSeq(list, LAMBDA animal : hasParent(h, parent, animal))

\* assignTo as it would be if it keyed the subtree by the item's parent.
assignToParentKey(h, tree, item, val) ==
    [h EXCEPT ![tree] = ObjSet(h[tree], Get(h[item], "parent").s, val)]

\* assignTo as it would be if it stored the record itself: tree[item.id] = item.
assignToRecord(h, tree, item, val) ==
    [h EXCEPT ![tree] = ObjSet(h[tree], Get(h[item], "id").s, Ref(item))]

\* assignTo as it would be if it hung the subtree on the record:
\* item[item.id] = val.
assignToOnItem(h, tree, item, val) ==
    [h EXCEPT ![item] = ObjSet(h[item], Get(h[item], "id").s, val)]

\* The assignment of assignTo(tree)(list)(item): tree[item.id] = val, where
\* val is what makeTree(list)(item.id) returned.  Yields the new heap.
assignTo(h, tree, item, val) ==
    [h EXCEPT ![tree] = ObjSet(h[tree], Get(h[item], "id").s, val)]

\* The activation of makeTree(animals)(parent) up to the start of forEach:
\* `let nodes = {}` allocates a fresh object, filter builds the array of
\* matches, forEach starts at its first element.
NewFrame(h, list, parent) ==
    [parent  |-> parent,
     nodes   |-> Len(h) + 1,
     matched |-> Filter(h, list, parent),
     i       |-> 1]

Top == stack[Len(stack)]

\* The outermost call makeTree(animals)(root).
TreeCall ==
    /\ prog = "tree"
    /\ pc = "start"
    /\ pc' = "running"
    /\ stack' = <<NewFrame(heap, animals, root)>>
    /\ heap' = Append(heap, <<>>)
    /\ UNCHANGED <<prog, animals, root, input, result>>
    /\ UNCHANGED curryVars
    /\ UNCHANGED fileVars

\* forEach reaches an element: assignTo(nodes)(animals)(item) calls
\* makeTree(list)(item.id).
Descend ==
    /\ prog = "tree"
    /\ pc = "running"
    /\ Top.i <= Len(Top.matched)
    /\ Len(stack) < MaxDepth
    /\ LET item == Top.matched[Top.i] IN
          /\ stack' = Append(stack, NewFrame(heap, animals, Get(heap[item], "id")))
          /\ heap' = Append(heap, <<>>)
    /\ UNCHANGED <<prog, pc, animals, root, input, result>>
    /\ UNCHANGED curryVars
    /\ UNCHANGED fileVars

\* The engine's call stack is exhausted: RangeError unwinds every frame.
Overflow ==
    /\ prog = "tree"
    /\ pc = "running"
    /\ Top.i <= Len(Top.matched)
    /\ Len(stack) >= MaxDepth
    /\ pc' = "RangeError"
    /\ stack' = <<>>
    /\ UNCHANGED <<prog, animals, root, heap, input, result>>
    /\ UNCHANGED curryVars
    /\ UNCHANGED fileVars

\* forEach is past the last element: `return nodes`.  In a nested call the
\* caller's assignTo stores the returned object and its forEach moves on; the
\* outermost call hands the object to the program.
Return ==
    /\ prog = "tree"
    /\ pc = "running"
    /\ Top.i > Len(Top.matched)
    /\ IF Len(stack) > 1
       THEN LET caller == stack[Len(stack) - 1]
                item   == caller.matched[caller.i]
            IN  /\ heap' = assignTo(heap, caller.nodes, item, Ref(Top.nodes))
                /\ stack' = [SubSeq(stack, 1, Len(stack) - 1)
                               EXCEPT ![Len(stack) - 1].i = caller.i + 1]
                /\ UNCHANGED <<pc, result>>
       ELSE /\ result' = Ref(Top.nodes)
            /\ pc' = "done"
            /\ stack' = <<>>
            /\ heap' = heap
    /\ UNCHANGED <<prog, animals, root, input>>
    /\ UNCHANGED curryVars
    /\ UNCHANGED fileVars

(***************************************************************************)
(* The curried readFile                                                    *)
(***************************************************************************)
Paths     == {"people.js", "pets.js"}
Options   == {"utf8", "latin1"}

\* The two callbacks of the script: one prints the data, the other prints it
\* reversed; both start with `if (err) throw new Error('Can not read file')`.
Callbacks == {"print", "printReversed"}

NoClosure == [path |-> "none", options |-> "none"]

\* Nothing of the readFile program has happened.
FileIdle ==
    /\ stage = "readFile"
    /\ closure = NoClosure
    /\ supplied = <<>>
    /\ reads = <<>>

\* fs.readFile(path, options, callback) as it would be if issued twice.
FsReadFileTwice(rs, path, options, cb) ==
    rs \o << [path |-> path, options |-> options, cb |-> cb,
              state |-> "pending", outcome |-> "none", calls |-> 0],
             [path |-> path, options |-> options, cb |-> cb,
              state |-> "pending", outcome |-> "none", calls |-> 0] >>

\* fs.readFile(path, options, callback): one more read is outstanding.
FsReadFile(rs, path, options, cb) ==
    Append(rs, [path |-> path, options |-> options, cb |-> cb,
                state |-> "pending", outcome |-> "none", calls |-> 0])

\* `if (err) throw new Error('Can not read file')` in both callbacks.
CallbackThrows(cb, outcome) == outcome = "err"

\* readFile(path): returns the function awaiting the options.
SupplyPath ==
    /\ prog = "file"
    /\ pc = "running"
    /\ stage = "readFile"
    /\ \E path \in Paths : closure' = [closure EXCEPT !.path = path]
    /\ stage' = "awaitsOptions"
    /\ UNCHANGED <<prog, pc, supplied, reads>>
    /\ UNCHANGED curryVars
    /\ UNCHANGED treeVars

\* readFile(path)(options): returns the function awaiting the callback
\* (readPeople in the script).
SupplyOptions ==
    /\ prog = "file"
    /\ pc = "running"
    /\ stage = "awaitsOptions"
    /\ \E options \in Options : closure' = [closure EXCEPT !.options = options]
    /\ stage' = "awaitsCallback"
    /\ UNCHANGED <<prog, pc, supplied, reads>>
    /\ UNCHANGED curryVars
    /\ UNCHANGED treeVars

\* readPeople(callback): calls fs.readFile(path, options, callback).  The
\* function stays usable: it can be given another callback.
SupplyCallback ==
    /\ prog = "file"
    /\ pc = "running"
    /\ stage = "awaitsCallback"
    /\ Len(supplied) < MaxReads
    /\ \E cb \in Callbacks :
          /\ supplied' = Append(supplied, cb)
          /\ reads' = FsReadFile(reads, closure.path, closure.options, cb)
    /\ UNCHANGED <<prog, pc, stage, closure>>
    /\ UNCHANGED curryVars
    /\ UNCHANGED treeVars

\* An outstanding read finishes, with the data or with an error, and the
\* event loop invokes its callback.  A callback that throws is an uncaught
\* exception: the process ends, whatever reads are still outstanding.
Complete ==
    /\ prog = "file"
    /\ pc = "running"
    /\ \E i \in 1..Len(reads), outcome \in {"data", "err"} :
          /\ reads[i].state = "pending"
          /\ reads' = [reads EXCEPT ![i].state = "called",
                                    ![i].outcome = outcome,
                                    ![i].calls = @ + 1]
          /\ pc' = IF CallbackThrows(reads[i].cb, outcome) THEN "crashed" ELSE pc
    /\ UNCHANGED <<prog, stage, closure, supplied>>
    /\ UNCHANGED curryVars
    /\ UNCHANGED treeVars

(***************************************************************************)
(* Inputs of the tree builder                                              *)
(***************************************************************************)
\* Identifiers of the generated records; "1" is an identifier that is also
\* an array index.
Ids == {"a", "b", "1"}

ParentVals(ids) == {Null} \cup {Str(x) : x \in ids}

Records(ids) == [id : ids, parent : ParentVals(ids)]

RECURSIVE ListsUpTo(_, _)
ListsUpTo(S, n) ==
    IF n = 0 THEN {<<>>}
    ELSE LET shorter == ListsUpTo(S, n - 1)
         IN  shorter \cup {Append(s, v) : s \in {t \in shorter : Len(t) = n - 1}, v \in S}

\* The animals array of the script.
AnimalsList ==
    << [id |-> "animals",   parent |-> Null],
       [id |-> "mammals",   parent |-> Str("animals")],
       [id |-> "cats",      parent |-> Str("mammals")],
       [id |-> "dogs",      parent |-> Str("mammals")],
       [id |-> "chihuahua", parent |-> Str("dogs")],
       [id |-> "labrador",  parent |-> Str("dogs")],
       [id |-> "persian",   parent |-> Str("cats")],
       [id |-> "siamese",   parent |-> Str("cats")] >>

\* The four-record scenario a, b, c, d.
ScenarioList ==
    << [id |-> "a", parent |-> Null],
       [id |-> "b", parent |-> Str("a")],
       [id |-> "c", parent |-> Str("a")],
       [id |-> "d", parent |-> Str("b")] >>

\* Records whose ids are numbers written as strings, among others.
NumberedList ==
    << [id |-> "b", parent |-> Null],
       [id |-> "2", parent |-> Null],
       [id |-> "1", parent |-> Null],
       [id |-> "a", parent |-> Str("2")] >>

\* The calls a run can make: a record list and the root parent value.
TreeInputs ==
    {[list |-> l, root |-> r] : l \in ListsUpTo(Records(Ids), MaxRecs), r \in ParentVals(Ids)}
    \cup {[list |-> AnimalsList, root |-> Null], [list |-> ScenarioList, root |-> Null],
          [list |-> NumberedList, root |-> Null]}

\* The heap holding the record objects of a list, one object per element.
HeapOf(l) == [j \in 1..Len(l) |-> RecordObj(Str(l[j].id), l[j].parent)]

TreeInit ==
    /\ prog = "tree"
    /\ pc = "start"
    /\ \E in \in TreeInputs :
          /\ heap = HeapOf(in.list)
          /\ animals = [j \in 1..Len(in.list) |-> j]
          /\ root = in.root
          /\ input = [array |-> [j \in 1..Len(in.list) |-> j], objs |-> HeapOf(in.list)]
    /\ stack = <<>>
    /\ result = Undefined
    /\ fn = "sum4"
    /\ args = <<>>
    /\ bound = <<>>
    /\ held = {}
    /\ last = NoCall
    /\ chain = [ok |-> TRUE, fed |-> <<>>]
    /\ invoked = 0
    /\ ncalls = 0
    /\ FileIdle

CurryInit ==
    /\ prog \in {"curry", "curryBind"}
    /\ pc = "start"
    /\ fn \in Fns
    /\ args = <<>>
    /\ bound = <<>>
    /\ held = {}
    /\ last = NoCall
    /\ chain = [ok |-> TRUE, fed |-> <<>>]
    /\ invoked = 0
    /\ ncalls = 0
    /\ animals = <<>>
    /\ root = Null
    /\ heap = <<>>
    /\ input = [array |-> <<>>, objs |-> <<>>]
    /\ stack = <<>>
    /\ result = Undefined
    /\ FileIdle

FileInit ==
    /\ prog = "file"
    /\ pc = "running"
    /\ FileIdle
    /\ fn = "sum4"
    /\ args = <<>>
    /\ bound = <<>>
    /\ held = {}
    /\ last = NoCall
    /\ chain = [ok |-> TRUE, fed |-> <<>>]
    /\ invoked = 0
    /\ ncalls = 0
    /\ animals = <<>>
    /\ root = Null
    /\ heap = <<>>
    /\ input = [array |-> <<>>, objs |-> <<>>]
    /\ stack = <<>>
    /\ result = Undefined

Init == CurryInit \/ TreeInit \/ FileInit

TreeStep == TreeCall \/ Descend \/ Overflow \/ Return

FileStep == SupplyPath \/ SupplyOptions \/ SupplyCallback \/ Complete

Next ==
    \/ Wrap \/ Call
    \/ TreeCall \/ Descend \/ Overflow \/ Return
    \/ SupplyPath \/ SupplyOptions \/ SupplyCallback \/ Complete

Spec == Init /\ [][Next]_vars

\* makeTree runs synchronously to completion: a step that can be taken is taken.
FairSpec == TreeInit /\ [][TreeStep]_vars /\ WF_vars(TreeStep)

\* The event loop delivers the completion of every read that is outstanding
\* while the process runs.
FileSpec == FileInit /\ [][FileStep]_vars /\ WF_vars(Complete)

(***************************************************************************)
(* Reading the state                                                       *)
(***************************************************************************)
\* The object at address a as a nested value: an object is "obj" with its
\* entries in enumeration order, anything else is its own type tag.
RECURSIVE TreeAt(_, _)
TreeAt(h, a) ==
    [t    |-> "obj",
     kids |-> [j \in 1..Len(h[a]) |->
                 [k   |-> h[a][j].k,
                  sub |-> IF h[a][j].v.t = "ref"
                          THEN TreeAt(h, h[a][j].v.a)
                          ELSE [t |-> h[a][j].v.t, kids |-> <<>>]]]]

ResultTree == TreeAt(heap, result.a)

Obj(kids)  == [t |-> "obj", kids |-> kids]
E(k, sub)  == [k |-> k, sub |-> sub]
Empty      == Obj(<<>>)
NullLeaf   == [t |-> "null", kids |-> <<>>]

KeySet(t) == {t.kids[j].k : j \in 1..Len(t.kids)}

\* The number of keys over all nesting levels of a tree.
RECURSIVE CountKeys(_)
CountKeys(t) ==
    IF Len(t.kids) = 0 THEN 0
    ELSE Len(t.kids) + SumSeq([j \in 1..Len(t.kids) |-> CountKeys(t.kids[j].sub)])

\* The addresses of the objects reachable from address a.
RECURSIVE Reachable(_, _)
Reachable(h, a) ==
    {a} \cup UNION {Reachable(h, h[a][j].v.a) : j \in {i \in 1..Len(h[a]) : h[a][i].v.t = "ref"}}

\* The records as they were handed to makeTree.
NRecs    == Len(input.array)
RecId(j) == Get(input.objs[input.array[j]], "id").s
RecParent(j) == Get(input.objs[input.array[j]], "parent")
InputIs(l) ==
    /\ NRecs = Len(l)
    /\ \A j \in 1..NRecs : RecId(j) = l[j].id /\ RecParent(j) = l[j].parent

ChildrenOf(p) == {RecId(j) : j \in {i \in 1..NRecs : RecParent(i) = p}}

UniqueIds == \A i, j \in 1..NRecs : RecId(i) = RecId(j) => i = j

\* The ids reached from id by following parent references, at most n hops.
RECURSIVE Ancestors(_, _)
Ancestors(id, n) ==
    IF n = 0 THEN {}
    ELSE LET ps == {RecParent(j).s : j \in {i \in 1..NRecs : RecId(i) = id /\ RecParent(i).t = "str"}}
         IN  ps \cup UNION {Ancestors(q, n - 1) : q \in ps}

Acyclic == \A j \in 1..NRecs : RecId(j) \notin Ancestors(RecId(j), NRecs)

ParentsPresent ==
    \A j \in 1..NRecs : RecParent(j) = Null \/ \E i \in 1..NRecs : RecParent(j) = Str(RecId(i))

\* An acyclic hierarchy: unique ids, every non-root parent present, no cycle.
Hierarchy == UniqueIds /\ ParentsPresent /\ Acyclic

\* t is the tree of the records below parent value p: its keys are the ids of
\* the records whose parent is p, each once, and the value under each id is
\* the tree of the records below that id.
RECURSIVE IsTreeOf(_, _, _)
IsTreeOf(t, p, n) ==
    /\ t.t = "obj"
    /\ KeySet(t) = ChildrenOf(p)
    /\ Len(t.kids) = Cardinality(ChildrenOf(p))
    /\ n > 0 => \A j \in 1..Len(t.kids) : IsTreeOf(t.kids[j].sub, Str(t.kids[j].k), n - 1)

\* {a: {b: {d: {}}, c: {}}}
ScenarioTree ==
    Obj(<<E("a", Obj(<<E("b", Obj(<<E("d", Empty)>>)), E("c", Empty)>>))>>)

C2_TerminatesAndCounts ==
    /\ [](prog = "tree" /\ Hierarchy /\ root = Null => <>(pc = "done"))
    /\ [](prog = "tree" /\ pc = "done" /\ Hierarchy /\ root = Null
            => CountKeys(ResultTree) = NRecs)

C2_Witness ==
    /\ prog = "tree" /\ pc = "done" /\ Hierarchy /\ root = Null
    /\ NRecs = MaxRecs
    /\ CountKeys(ResultTree) = NRecs

(***************************************************************************)
(* C8  In the result of makeTree every leaf record (no record names it as  *)
(* its parent) maps to an empty mapping, and makeTree(records)(p) is the   *)
(* empty mapping when no record has parent p.                              *)
(***************************************************************************)
RECURSIVE LeavesEmpty(_)
LeavesEmpty(t) ==
    \A j \in 1..Len(t.kids) :
        /\ ChildrenOf(Str(t.kids[j].k)) = {} => t.kids[j].sub = Empty
        /\ LeavesEmpty(t.kids[j].sub)

C9_InputUntouched ==
    prog = "tree" =>
        /\ animals = input.array
        /\ \A a \in 1..Len(input.objs) : heap[a] = input.objs[a]
        /\ pc = "done" => Reachable(heap, result.a) \cap (1..Len(input.objs)) = {}

C9_Witness ==
    /\ prog = "tree" /\ pc = "done"
    /\ NRecs = MaxRecs
    /\ Cardinality(Reachable(heap, result.a)) = NRecs + 1
    /\ animals = input.array

(***************************************************************************)
(* C10  For the animals list makeTree(animals)(null) is the tree of the    *)
(* documentation comment: dogs before cats, every leaf mapped to null.     *)
(***************************************************************************)
DocumentedTree ==
    Obj(<<E("animals", Obj(<<E("mammals", Obj(<<
        E("dogs", Obj(<<E("chihuahua", NullLeaf), E("labrador", NullLeaf)>>)),
        E("cats", Obj(<<E("persian", NullLeaf), E("siamese", NullLeaf)>>))>>))>>))>>)

C10_DocumentedTree ==
    (prog = "tree" /\ pc = "done" /\ InputIs(AnimalsList) /\ root = Null) =>
        ResultTree = DocumentedTree


(***************************************************************************)
(* Curry claims                                                            *)
(***************************************************************************)
Currying == prog \in {"curry", "curryBind"}

Called == Currying /\ last.kind # "none"

N == FnLength(fn)

\* fn applied to exactly the first N elements of a.
OnFirstN(a) == FnApply(fn, SubSeq(a, 1, N))

\* The arguments the callable of the latest call was meant to hold, followed
\* by the arguments of that call.
Own == last.h.acc \o last.x

(***************************************************************************)
(* C3  A fresh wrapper from curry(fn) or curryBind(fn), fn of fixed arity  *)
(* N, fed a1..aN one per call in one chain, returns a callable after each  *)
(* of the first N-1 calls and fn(a1, ..., aN) on the N-th; the 4-argument  *)
(* sum fed 1, 2, 3, 4 returns 10.                                          *)
(***************************************************************************)
C3_ChainOfSingles ==
    (Called /\ ~IsVariadic(fn) /\ chain.ok) =>
        /\ Len(chain.fed) = ncalls
        /\ Len(chain.fed) <= N
        /\ Len(chain.fed) < N => last.kind = "callable"
        /\ Len(chain.fed) = N => last.kind = "value" /\ last.value = FnApply(fn, chain.fed)
        /\ (fn = "sum4" /\ chain.fed = <<1, 2, 3, 4>>) => last.value = 10

C3_Witness ==
    /\ prog = "curry" /\ fn = "sum4" /\ chain.ok
    /\ chain.fed = <<1, 2, 3, 4>>
    /\ last.kind = "value" /\ last.value = 10

(***************************************************************************)
(* C4  A partial p returned by curry is reusable: every call p(x...)       *)
(* returns fn applied to p's own accumulated prefix followed by x...,      *)
(* whatever calls were made before on p or on other callables of the same  *)
(* curry(fn); with p = curry(product of 4)(1, 2, 3): p(0) is 0, then p(1)  *)
(* is 6, then p(2) is 12.                                                  *)
(***************************************************************************)
C4_CurryPartialReusable ==
    (Called /\ prog = "curry" /\ ~IsVariadic(fn) /\ Len(last.h.acc) > 0) =>
        /\ Len(Own) >= N => last.kind = "value" /\ last.value = OnFirstN(Own)
        /\ Len(Own) < N => last.kind = "callable"

(***************************************************************************)
(* C5  A partial q returned by curryBind holding a prefix of k < N         *)
(* arguments is reusable: in any sequence of later calls, q(x...) with     *)
(* k + |x| >= N returns fn(prefix, x...), and with k + |x| < N returns a   *)
(* new callable holding the prefix followed by x, and no call changes what *)
(* q or any other callable returned before does; newAdd(1, 2, 3) called    *)
(* with 0, 1, 2 gives 0, 6, 12.                                            *)
(***************************************************************************)
C5_BindPartialReusable ==
    (prog = "curryBind" /\ ~IsVariadic(fn)) =>
        /\ \A h \in held : h.ref > 0 =>
              /\ h.ref \in DOMAIN bound
              /\ bound[h.ref] = h.acc
              /\ Len(h.acc) < N
        /\ Called =>
              /\ Len(Own) >= N => last.kind = "value" /\ last.value = OnFirstN(Own)
              /\ Len(Own) < N =>
                    /\ last.kind = "callable"
                    /\ last.ret \in held
                    /\ last.ret.acc = Own
                    /\ last.ret.ref = Len(bound)
              /\ (fn = "prod4" /\ last.h.acc = <<1, 2, 3>>) =>
                    /\ last.x = <<0>> => last.value = 0
                    /\ last.x = <<1>> => last.value = 6
                    /\ last.x = <<2>> => last.value = 12

\* The third call on the same partial, after two calls that returned values.
C5_Witness ==
    /\ prog = "curryBind" /\ fn = "prod4"
    /\ ncalls = 4 /\ invoked = 3
    /\ last.h.acc = <<1, 2, 3>> /\ last.x = <<2>>
    /\ last.kind = "value" /\ last.value = 12

(***************************************************************************)
(* C6  When a call brings the accumulated argument count to N or more, fn  *)
(* is invoked on the first N accumulated arguments (the extra ones are     *)
(* dropped) and its result is returned; curry((a, b) => a + b)(1, 2, 3)    *)
(* returns 3.                                                              *)
(***************************************************************************)
\* What the code has accumulated when the latest call decides: curry's
\* `args`, curryBind's bound arguments followed by the call's.
Accumulated == IF prog = "curry" THEN args ELSE Own

ReadsDeferred ==
    prog = "file" =>
        /\ stage # "awaitsCallback" => reads = <<>>
        /\ Len(reads) = Len(supplied)
        /\ \A i \in 1..Len(reads) :
              /\ reads[i].cb = supplied[i]
              /\ reads[i].path = closure.path
              /\ reads[i].options = closure.options
              /\ reads[i].calls <= 1
              /\ reads[i].calls = 1 <=> reads[i].outcome \in {"data", "err"}
              /\ reads[i].calls = 0 <=> reads[i].state = "pending"

InvokedOnce(i) == Len(reads) >= i /\ reads[i].calls = 1

C11_EveryCallbackInvoked ==
    /\ []ReadsDeferred
    /\ \A i \in 1..MaxReads : [](Len(reads) >= i => <>InvokedOnce(i))

\* C11 as amended: as above, except that a supplied callback is eventually
\* invoked exactly once only while the process lives: a callback invoked
\* with an error throws, the process ends, and the callbacks of the reads
\* still outstanding are never invoked.
C11_InvokedUnlessCrashed ==
    /\ []ReadsDeferred
    /\ \A i \in 1..MaxReads : [](Len(reads) >= i => <>(InvokedOnce(i) \/ pc = "crashed"))
    /\ [](pc = "crashed" => \E i \in 1..Len(reads) : reads[i].outcome = "err")

\* Two reads outstanding at once, the later one completed first.
C11_Witness ==
    /\ prog = "file" /\ pc = "running"
    /\ Len(reads) = 2
    /\ reads[1].state = "pending"
    /\ reads[2].calls = 1 /\ reads[2].outcome = "data"
    /\ reads[1].path = reads[2].path /\ reads[1].options = reads[2].options

(***************************************************************************)
(* C12  If the parent relation of the records contains a cycle,            *)
(* makeTree(records)(rootParent) does not terminate, for every rootParent  *)
(* including null.                                                         *)
(***************************************************************************)
C12_CycleNeverReturns ==
    (prog = "tree" /\ ~Acyclic) => pc # "done"

\* The ids of the records below parent value p, at most n levels down.
RECURSIVE Descendants(_, _)
Descendants(p, n) ==
    IF n = 0 THEN {}
    ELSE ChildrenOf(p) \cup UNION {Descendants(Str(c), n - 1) : c \in ChildrenOf(p)}

\* The recursion from the root value meets an id that is below itself.
CycleReached ==
    \E c \in Descendants(root, NRecs) : c \in Descendants(Str(c), NRecs)

\* C12 as amended: makeTree(records)(rootParent) does not return when a
\* record on a parent cycle lies below rootParent: the recursion deepens
\* until the call stack is exhausted.  With a cycle that does not lie below
\* rootParent (any cycle of records with unique ids when rootParent is
\* null) it returns.
C12_ReachedCycleNeverReturns ==
    /\ [](prog = "tree" /\ pc = "done" => ~CycleReached)
    /\ [](prog = "tree" /\ pc = "RangeError" => CycleReached)
    /\ <>(pc \in {"done", "RangeError"})

C12_Witness ==
    /\ prog = "tree" /\ pc = "RangeError"
    /\ UniqueIds /\ ~Acyclic /\ NRecs = 2
    /\ CycleReached

(***************************************************************************)
(* C13  At every nesting level of the tree built by makeTree the keys are  *)
(* in the order in which the matching records appear in the input list;    *)
(* no sorting or reordering is applied.                                    *)
(***************************************************************************)
\* The ids of the records whose parent is p, in input order.
MatchingIds(p) ==
    LET idx == SelectSeq([j \in 1..NRecs |-> j], LAMBDA j : RecParent(j) = p)
    IN  [k \in 1..Len(idx) |-> RecId(idx[k])]

\* s without the later occurrences of its elements.
RECURSIVE FirstOccurrences(_)
FirstOccurrences(s) ==
    IF s = <<>> THEN <<>>
    ELSE <<Head(s)>> \o FirstOccurrences(SelectSeq(Tail(s), LAMBDA x : x # Head(s)))

TreeKeys(t) == [j \in 1..Len(t.kids) |-> t.kids[j].k]

RECURSIVE InInputOrder(_, _)
InInputOrder(t, p) ==
    /\ TreeKeys(t) = FirstOccurrences(MatchingIds(p))
    /\ \A j \in 1..Len(t.kids) : InInputOrder(t.kids[j].sub, Str(t.kids[j].k))

IndexKeysFirst(s) ==
    SelectSeq(<<"0", "1", "2">>, LAMBDA k : \E j \in 1..Len(s) : s[j] = k)
    \o SelectSeq(s, LAMBDA k : k \notin {"0", "1", "2"})

RECURSIVE InEngineOrder(_, _)
InEngineOrder(t, p) ==
    /\ TreeKeys(t) = IndexKeysFirst(FirstOccurrences(MatchingIds(p)))
    /\ \A j \in 1..Len(t.kids) : InEngineOrder(t.kids[j].sub, Str(t.kids[j].k))

LenBefore == Len(args) - Len(last.x)

C15_StaleArguments ==
    prog = "curry" =>
        /\ \A h \in held : h.ref = 0
        /\ args = chain.fed
        /\ invoked >= 1 => last.kind = "value"
        /\ (Called /\ LenBefore >= N) =>
              /\ last.kind = "value"
              /\ invoked >= 1
              /\ ~IsVariadic(fn) =>
                    last.value = FnApply(fn, SubSeq(args, 1, LenBefore))

\* The example partial (1, 2, 3) called with 0 and then with 1: 0 again.
C15_Witness ==
    /\ prog = "curry" /\ fn = "prod4"
    /\ last.h.acc = <<1, 2, 3>> /\ last.x = <<1>>
    /\ args = <<1, 2, 3, 0, 1>>
    /\ last.kind = "value" /\ last.value = 0

====
